---- MODULE Spec2Model ----
(***************************************************************************)
(* BroadlinkRemote (custom_components/remote.py): the request dispatcher   *)
(* async_request / async_auth, the command sender send_command and the     *)
(* learning-mode controller learn_command, as a state machine over the     *)
(* coroutines' suspension points.  Every action runs one coroutine from    *)
(* one await to the next, as the asyncio event loop does.                  *)
(***************************************************************************)
EXTENDS Integers, Sequences, FiniteSets, TLC

(***************************************************************************)
(* Bounds of the model.                                                    *)
(***************************************************************************)
\* The clock is followed up to LEARNING_TIMEOUT + MaxOvershoot units after
\* start_time; later instants are not told apart.
MaxOvershoot == 2

\* Two overlapping calls are followed while each has issued at most
\* MaxParPolls polls and at most MaxParClock units have passed since its
\* start_time.
MaxParPolls == 1

MaxParClock == 1

\* timedelta(seconds=30)
LEARNING_TIMEOUT == 30

ClockCap == LEARNING_TIMEOUT + MaxOvershoot

(***************************************************************************)
(* Values.  Bytes are sequences over 0..255, text is a sequence of         *)
(* one-character strings.                                                  *)
(***************************************************************************)
Tasks == {"t1", "t2"}

Presets == {"tv", "ac"}

Buttons == {"power", "mute"}

\* Python's None (the result of dict.get on a missing key, of send_data,
\* of send_command); no text equals it.
None == <<"None">>

\* What check_data may hand back when the device has captured a signal.
CapturedData == {<<178>>, <<38, 0, 255, 13>>}

B64Alphabet ==
    << "A","B","C","D","E","F","G","H","I","J","K","L","M","N","O","P",
       "Q","R","S","T","U","V","W","X","Y","Z","a","b","c","d","e","f",
       "g","h","i","j","k","l","m","n","o","p","q","r","s","t","u","v",
       "w","x","y","z","0","1","2","3","4","5","6","7","8","9","+","/" >>

B64Char(n) == B64Alphabet[n + 1]

B64Index(c) == (CHOOSE i \in 1..64 : B64Alphabet[i] = c) - 1

\* base64.b64encode(bs).decode("utf8"): three bytes give four characters,
\* a last group of one or two bytes is padded with "=".
RECURSIVE b64encode(_)
b64encode(bs) ==
    IF Len(bs) = 0 THEN <<>>
    ELSE IF Len(bs) = 1 THEN
        << B64Char(bs[1] \div 4), B64Char((bs[1] % 4) * 16), "=", "=" >>
    ELSE IF Len(bs) = 2 THEN
        << B64Char(bs[1] \div 4),
           B64Char((bs[1] % 4) * 16 + bs[2] \div 16),
           B64Char((bs[2] % 16) * 4), "=" >>
    ELSE
        << B64Char(bs[1] \div 4),
           B64Char((bs[1] % 4) * 16 + bs[2] \div 16),
           B64Char((bs[2] % 16) * 4 + bs[3] \div 64),
           B64Char(bs[3] % 64) >> \o b64encode(SubSeq(bs, 4, Len(bs)))

\* base64.b64decode of a well-padded text: four characters give three
\* bytes, fewer when the group ends in "=".
RECURSIVE b64decode(_)
b64decode(s) ==
    IF Len(s) < 4 THEN <<>>
    ELSE LET a == B64Index(s[1])
             b == B64Index(s[2])
             rest == b64decode(SubSeq(s, 5, Len(s)))
         IN  IF s[3] = "=" THEN << a * 4 + b \div 16 >>
             ELSE LET c == B64Index(s[3])
                  IN  IF s[4] = "="
                      THEN << a * 4 + b \div 16, (b % 16) * 16 + c \div 4 >>
                      ELSE << a * 4 + b \div 16, (b % 16) * 16 + c \div 4,
                              (c % 4) * 64 + B64Index(s[4]) >> \o rest

\* helpers.decode_packet: the stored text back to the raw bytes.
decode_packet(code) == b64decode(code)

(***************************************************************************)
(* Failures.  The except clauses of the source tell four classes apart.    *)
(***************************************************************************)
\* except (AuthorizationError, ConnectionClosedError) in async_request
AuthFailures == {"AuthorizationError", "ConnectionClosedError"}

\* except (ReadError, StorageError) in the polling loop
NoDataFailures == {"ReadError", "StorageError"}

\* broadlink.exceptions: every class below derives from BroadlinkException
BroadlinkExceptions ==
    AuthFailures \cup NoDataFailures
        \cup {"AuthenticationError", "NetworkTimeoutError"}

\* except (BroadlinkException, OSError)
DeviceFailures == BroadlinkExceptions \cup {"OSError"}

\* What a blocking device call may raise: a device or network failure, or
\* an exception none of the except clauses names.
Failures == DeviceFailures \cup {"Exception"}

\* The outcome of an awaited call: a value, a raised exception, or none yet.
Ok(v) == [kind |-> "ok", err |-> "", val |-> v]

Err(e) == [kind |-> "err", err |-> e, val |-> <<>>]

Pending == [kind |-> "pending", err |-> "", val |-> <<>>]

\* The device handle's blocking operations and what each can answer.
\* send_data, enter_learning and auth return None; check_data returns bytes.
DeviceOutcomes(fn) ==
    {Err(e) : e \in Failures}
        \cup (IF fn = "check_data" THEN {Ok(d) : d \in CapturedData}
              ELSE {Ok(<<>>)})

(***************************************************************************)
(* Dictionaries: preset_list maps a preset name to a dict from button name *)
(* to stored code.                                                         *)
(***************************************************************************)
EmptyDict == [k \in {} |-> None]

\* dict.get(k)
Get(d, k) == IF k \in DOMAIN d THEN d[k] ELSE None

\* d[k] = v
Put(d, k, v) == [x \in (DOMAIN d) \cup {k} |-> IF x = k THEN v ELSE d[x]]

\* The preset collections a remote is constructed with: the constructor's
\* default {}, a preset without buttons, and presets holding learned codes.
InitialPresetLists ==
    LET c1 == b64encode(<<178>>)
        c2 == b64encode(<<38, 0, 255, 13>>)
    IN  { EmptyDict,
          Put(EmptyDict, "tv", EmptyDict),
          Put(EmptyDict, "tv", Put(EmptyDict, "power", c1)),
          Put(Put(EmptyDict, "tv", Put(Put(EmptyDict, "power", c1), "mute", c2)),
              "ac", Put(EmptyDict, "power", c2)) }

(***************************************************************************)
(* State.                                                                  *)
(***************************************************************************)
VARIABLES
    preset_list,    \* self.preset_list
    notifications,  \* ids shown by hass.components.persistent_notification
    orphans,        \* executor jobs still running whose awaiter was cancelled
    pc,             \* per task: the await the coroutine is suspended at
    call,           \* per task: the call it runs and its arguments
    req,            \* per task: its current (or last) async_request
    elapsed,        \* per task: dt.utcnow() - start_time, -1 before start_time
    slept,          \* per task: asyncio.sleep(1) has lasted its 1 unit
    polls,          \* per task: check_data requests issued by this call
    created,        \* per task: async_create calls made by this call
    dismissed,      \* per task: async_dismiss calls made by this call
    result          \* per task: how the call ended

vars == << preset_list, notifications, orphans, pc, call, req, elapsed, slept,
           polls, created, dismissed, result >>

NoCall == [op |-> "none", button_name |-> "", preset |-> ""]

\* No request made yet.
NoRequest == [fn |-> "none", args |-> <<>>, stage |-> "none", log |-> <<>>,
              out |-> Pending]

Running == [kind |-> "running", err |-> "", val |-> None]

Returned(v) == [kind |-> "returned", err |-> "", val |-> v]

Raised(e) == [kind |-> "raised", err |-> e, val |-> None]

\* One remote, one call per task; only the tasks in `active` ever call.
InitWith(active) ==
    /\ preset_list \in InitialPresetLists
    /\ notifications = {}
    /\ orphans = 0
    /\ pc = [t \in Tasks |-> IF t \in active THEN "idle" ELSE "off"]
    /\ call = [t \in Tasks |-> NoCall]
    /\ req = [t \in Tasks |-> NoRequest]
    /\ elapsed = [t \in Tasks |-> -1]
    /\ slept = [t \in Tasks |-> FALSE]
    /\ polls = [t \in Tasks |-> 0]
    /\ created = [t \in Tasks |-> 0]
    /\ dismissed = [t \in Tasks |-> 0]
    /\ result = [t \in Tasks |-> Running]

Init == InitWith({"t1"})

(***************************************************************************)
(* The request dispatcher.                                                 *)
(***************************************************************************)
\* One entry of a request's log: a job handed to the executor.
Job(fn, args) == [fn |-> fn, args |-> args, out |-> Pending]

\* hass.async_add_executor_job(...): the job is submitted, the coroutine
\* suspends until it answers.
Submit(r, stage, fn, args) ==
    [r EXCEPT !.stage = stage, !.log = Append(@, Job(fn, args))]

\* The awaited job has answered `out`: the log's last entry records it.
Answered(r, out) == [r EXCEPT !.log[Len(r.log)].out = out]

\* async_request up to its first await: request = partial(function, *args),
\* then the first executor job.
async_request(fn, args) ==
    Submit([fn |-> fn, args |-> args, stage |-> "first", log |-> <<>>,
            out |-> Pending], "first", fn, args)

\* A dispatcher that takes every device-library failure for a lost session.
IsAuthFailure_AnyBroadlink(out) ==
    out.kind = "err" /\ out.err \in BroadlinkExceptions

\* except (AuthorizationError, ConnectionClosedError)
IsAuthFailure(out) == out.kind = "err" /\ out.err \in AuthFailures

\* An async_auth that never reports a failed authentication.
async_auth_Optimistic(out) == Ok(TRUE)

\* async_auth once device.auth has answered: False on
\* (BroadlinkException, OSError), True when auth returned; any other
\* exception leaves async_auth (and async_request) as it is.
async_auth(out) ==
    IF out.kind = "ok" THEN Ok(TRUE)
    ELSE IF out.err \in DeviceFailures THEN Ok(FALSE)
    ELSE out

\* The request's end: the value returned or the exception raised.
Finish(r, out) ==
    [r EXCEPT !.stage = IF out.kind = "ok" THEN "returned" ELSE "raised",
              !.out = out]

\* A dispatcher that re-authenticates again whenever the retry fails with
\* an authorization or connection-closed failure.
Resumed_RetryAgain(r, out) ==
    LET a == Answered(r, out)
    IN  CASE r.stage = "first" ->
                IF IsAuthFailure(out)
                THEN Submit(a, "auth", "auth", <<>>)
                ELSE Finish(a, out)
          [] r.stage = "auth" ->
                LET ok == async_auth(out)
                IN  IF ok.kind = "err" THEN Finish(a, ok)
                    ELSE IF ~ok.val THEN Finish(a, r.log[1].out)
                    ELSE Submit(a, "retry", r.fn, r.args)
          [] r.stage = "retry" ->
                IF IsAuthFailure(out)
                THEN Submit(a, "auth", "auth", <<>>)
                ELSE Finish(a, out)

\* A dispatcher that does not await the re-authentication: the retry is
\* handed to the executor while device.auth is still running.
Resumed_AuthNotAwaited(r, out) ==
    LET a == Answered(r, out)
    IN  CASE r.stage = "first" ->
                IF IsAuthFailure(out)
                THEN Submit(Submit(a, "auth", "auth", <<>>), "retry", r.fn, r.args)
                ELSE Finish(a, out)
          [] r.stage = "auth" -> Finish(a, out)
          [] r.stage = "retry" -> Finish(a, out)

\* A dispatcher that re-authenticates but raises the first failure again
\* instead of retrying.
Resumed_NoRetry(r, out) ==
    LET a == Answered(r, out)
    IN  CASE r.stage = "first" ->
                IF IsAuthFailure(out)
                THEN Submit(a, "auth", "auth", <<>>)
                ELSE Finish(a, out)
          [] r.stage = "auth" ->
                LET ok == async_auth(out)
                IN  IF ok.kind = "err" THEN Finish(a, ok)
                    ELSE Finish(a, r.log[1].out)
          [] r.stage = "retry" -> Finish(a, out)

\* async_request resumed by the answer `out` of the job it awaits.
Resumed(r, out) ==
    LET a == Answered(r, out)
    IN  CASE r.stage = "first" ->
                IF IsAuthFailure(out)
                THEN Submit(a, "auth", "auth", <<>>)
                ELSE Finish(a, out)
          [] r.stage = "auth" ->
                LET ok == async_auth(out)
                IN  IF ok.kind = "err" THEN Finish(a, ok)
                    ELSE IF ~ok.val THEN Finish(a, r.log[1].out)
                    ELSE Submit(a, "retry", r.fn, r.args)
          [] r.stage = "retry" -> Finish(a, out)

InFlight(r) == r.stage \in {"first", "auth", "retry"}

\* The device operation the request is waiting on.
Awaited(r) == r.log[Len(r.log)].fn

(***************************************************************************)
(* How a call ends.                                                        *)
(***************************************************************************)
\* The coroutine returns or raises to its caller.
Ends(t, res) ==
    /\ pc' = [pc EXCEPT ![t] = "done"]
    /\ result' = [result EXCEPT ![t] = res]

\* An async_create under another notification_id than the dismissal's.
Create_OtherId(t) ==
    /\ notifications' = notifications \cup {"learn"}
    /\ created' = [created EXCEPT ![t] = @ + 1]

\* persistent_notification.async_create(..., notification_id="learn_command")
Create(t) ==
    /\ notifications' = notifications \cup {"learn_command"}
    /\ created' = [created EXCEPT ![t] = @ + 1]

\* persistent_notification.async_dismiss(notification_id="learn_command")
Dismiss(t) ==
    /\ notifications' = notifications \ {"learn_command"}
    /\ dismissed' = [dismissed EXCEPT ![t] = @ + 1]

\* A learn_command without the finally clause around its polling loop.
LeaveTry_NoFinally(t, res) ==
    /\ Ends(t, res)
    /\ UNCHANGED << notifications, dismissed >>

\* Leaving the try block of learn_command: the finally clause runs, then
\* the coroutine returns or raises.
LeaveTry(t, res) ==
    /\ Dismiss(t)
    /\ Ends(t, res)

\* A loop condition that gives up one unit early.
Expired_Early(el) == ~(el < LEARNING_TIMEOUT - 1)

\* A loop condition written with <= instead of <.
Expired_Late(el) == ~(el < LEARNING_TIMEOUT + 1)

\* while (dt.utcnow() - start_time) < LEARNING_TIMEOUT
Expired(el) == ~(el < LEARNING_TIMEOUT)

\* The head of the polling loop, `el` units after start_time: another round
\* begins with asyncio.sleep(1), or the loop ends and TimeoutError is raised.
LoopHead(t, el) ==
    IF Expired(el)
    THEN /\ LeaveTry(t, Raised("TimeoutError"))
         /\ UNCHANGED slept
    ELSE /\ pc' = [pc EXCEPT ![t] = "sleep"]
         /\ slept' = [slept EXCEPT ![t] = FALSE]
         /\ UNCHANGED << notifications, dismissed, result >>

(***************************************************************************)
(* send_command                                                            *)
(***************************************************************************)
\* A send_command that transmits the stored text itself, not decoded.
SendRequest_Undecoded(code) ==
    LET Ascii(c) ==
            LET i == B64Index(c)
            IN  IF c = "=" THEN 61
                ELSE IF i < 26 THEN 65 + i
                ELSE IF i < 52 THEN 97 + (i - 26)
                ELSE IF i < 62 THEN 48 + (i - 52)
                ELSE IF i = 62 THEN 43 ELSE 47
    IN  async_request("send_data", << [i \in 1..Len(code) |-> Ascii(code[i])] >>)

\* code = decode_packet(code)
\* await self.async_request(self._device.send_data, code)
SendRequest(code) == async_request("send_data", << decode_packet(code) >>)

\* The call up to its first await: the lookup, then the request.
send_command(t, button_name, preset) ==
    /\ pc[t] = "idle"
    /\ call' = [call EXCEPT ![t] = [op |-> "send_command",
                    button_name |-> button_name, preset |-> preset]]
    /\ IF preset \notin DOMAIN preset_list
       THEN \* self.preset_list[preset]
            /\ Ends(t, Raised("KeyError"))
            /\ UNCHANGED req
       ELSE LET code == Get(preset_list[preset], button_name)
            IN  IF code = None
                THEN /\ Ends(t, Returned(None))
                     /\ UNCHANGED req
                ELSE /\ req' = [req EXCEPT ![t] = SendRequest(code)]
                     /\ pc' = [pc EXCEPT ![t] = "send_data"]
                     /\ UNCHANGED result
    /\ UNCHANGED << preset_list, notifications, orphans, elapsed, slept,
                    polls, created, dismissed >>

\* A send_command that catches the device library's failures only.
Swallowed_BroadlinkOnly(e) == e \in BroadlinkExceptions

\* except (BroadlinkException, OSError) as err: logged, not raised again
Swallowed(e) == e \in DeviceFailures

\* The send_data request has answered.
SendDataAnswered(t) ==
    /\ pc[t] = "send_data"
    /\ InFlight(req[t])
    /\ \E out \in DeviceOutcomes(Awaited(req[t])) :
         LET r == Resumed(req[t], out)
         IN  /\ req' = [req EXCEPT ![t] = r]
             /\ IF InFlight(r) THEN UNCHANGED << pc, result >>
                ELSE IF r.out.kind = "ok" \/ Swallowed(r.out.err)
                THEN Ends(t, Returned(None))
                ELSE Ends(t, Raised(r.out.err))
    /\ UNCHANGED << preset_list, notifications, orphans, call, elapsed, slept,
                    polls, created, dismissed >>

(***************************************************************************)
(* learn_command                                                           *)
(***************************************************************************)
\* The call up to its first await: the enter_learning request.
learn_command(t, button_name, preset) ==
    /\ pc[t] = "idle"
    /\ call' = [call EXCEPT ![t] = [op |-> "learn_command",
                    button_name |-> button_name, preset |-> preset]]
    /\ req' = [req EXCEPT ![t] = async_request("enter_learning", <<>>)]
    /\ pc' = [pc EXCEPT ![t] = "enter_learning"]
    /\ UNCHANGED << preset_list, notifications, orphans, elapsed, slept,
                    polls, created, dismissed, result >>

\* A learn_command that logs the failure and does not raise it again.
EnterFailed_NotRaised(t, e) == Ends(t, Returned(None))

\* except (BroadlinkException, OSError) as err: logged, then `raise`; any
\* other exception passes the except clause untouched.
EnterFailed(t, e) == Ends(t, Raised(e))

\* The enter_learning request has answered: a failure is raised again, a
\* success shows the notification, takes start_time and enters the loop.
EnterLearningAnswered(t) ==
    /\ pc[t] = "enter_learning"
    /\ InFlight(req[t])
    /\ \E out \in DeviceOutcomes(Awaited(req[t])) :
         LET r == Resumed(req[t], out)
         IN  /\ req' = [req EXCEPT ![t] = r]
             /\ IF InFlight(r)
                THEN UNCHANGED << pc, result, notifications, created, dismissed,
                                  elapsed, slept >>
                ELSE IF r.out.kind = "err"
                THEN /\ EnterFailed(t, r.out.err)
                     /\ UNCHANGED << notifications, created, dismissed,
                                     elapsed, slept >>
                ELSE /\ Create(t)
                     /\ elapsed' = [elapsed EXCEPT ![t] = 0]
                     /\ pc' = [pc EXCEPT ![t] = "sleep"]
                     /\ slept' = [slept EXCEPT ![t] = FALSE]
                     /\ UNCHANGED << dismissed, result >>
    /\ UNCHANGED << preset_list, orphans, call, polls >>

\* A polling loop that polls without waiting for the sleep to end.
Poll_NoSleep(t) ==
    /\ pc[t] = "sleep"
    /\ req' = [req EXCEPT ![t] = async_request("check_data", <<>>)]
    /\ pc' = [pc EXCEPT ![t] = "check_data"]
    /\ polls' = [polls EXCEPT ![t] = @ + 1]
    /\ UNCHANGED << preset_list, notifications, orphans, call, elapsed, slept,
                    created, dismissed, result >>

\* asyncio.sleep(1) is over: the check_data request is made.
Poll(t) ==
    /\ pc[t] = "sleep"
    /\ slept[t]
    /\ req' = [req EXCEPT ![t] = async_request("check_data", <<>>)]
    /\ pc' = [pc EXCEPT ![t] = "check_data"]
    /\ polls' = [polls EXCEPT ![t] = @ + 1]
    /\ UNCHANGED << preset_list, notifications, orphans, call, elapsed, slept,
                    created, dismissed, result >>

\* A polling loop that goes on after ReadError only.
IsNoData_ReadErrorOnly(out) == out.kind = "err" /\ out.err = "ReadError"

\* except (ReadError, StorageError): continue
IsNoData(out) == out.kind = "err" /\ out.err \in NoDataFailures

\* A capture that replaces the preset's buttons by the learned one.
Capture_Clobber(t, code) ==
    LET decoded_code == b64encode(code)
        preset == call[t].preset
        button_name == call[t].button_name
    IN  IF preset \notin DOMAIN preset_list
        THEN /\ LeaveTry(t, Raised("KeyError"))
             /\ UNCHANGED preset_list
        ELSE /\ preset_list' = [preset_list EXCEPT ![preset] =
                                    Put(EmptyDict, button_name, decoded_code)]
             /\ LeaveTry(t, Returned(decoded_code))

\* decoded_code = b64encode(code).decode("utf8")
\* self.preset_list[preset][button_name] = decoded_code
\* return decoded_code
Capture(t, code) ==
    LET decoded_code == b64encode(code)
        preset == call[t].preset
        button_name == call[t].button_name
    IN  IF preset \notin DOMAIN preset_list
        THEN /\ LeaveTry(t, Raised("KeyError"))
             /\ UNCHANGED preset_list
        ELSE /\ preset_list' = [preset_list EXCEPT ![preset] =
                                    Put(@, button_name, decoded_code)]
             /\ LeaveTry(t, Returned(decoded_code))

\* The check_data request has answered.
CheckDataAnswered(t) ==
    /\ pc[t] = "check_data"
    /\ InFlight(req[t])
    /\ \E out \in DeviceOutcomes(Awaited(req[t])) :
         LET r == Resumed(req[t], out)
         IN  /\ req' = [req EXCEPT ![t] = r]
             /\ IF InFlight(r)
                THEN UNCHANGED << pc, result, notifications, dismissed, slept,
                                  preset_list >>
                ELSE IF IsNoData(r.out)
                THEN /\ LoopHead(t, elapsed[t])
                     /\ UNCHANGED preset_list
                ELSE IF r.out.kind = "err"
                THEN /\ LeaveTry(t, Raised(r.out.err))
                     /\ UNCHANGED << slept, preset_list >>
                ELSE /\ Capture(t, r.out.val)
                     /\ UNCHANGED slept
    /\ UNCHANGED << orphans, call, elapsed, polls, created >>

(***************************************************************************)
(* The environment: time, cancellation, the executor.                      *)
(***************************************************************************)
Polling(t) == pc[t] \in {"sleep", "check_data"}

\* One unit of time passes.
Tick ==
    /\ \E t \in Tasks : Polling(t) /\ (elapsed[t] < ClockCap \/ ~slept[t])
    /\ elapsed' = [t \in Tasks |->
                     IF Polling(t) /\ elapsed[t] < ClockCap
                     THEN elapsed[t] + 1 ELSE elapsed[t]]
    /\ slept' = [t \in Tasks |-> IF pc[t] = "sleep" THEN TRUE ELSE slept[t]]
    /\ UNCHANGED << preset_list, notifications, orphans, pc, call, req, polls,
                    created, dismissed, result >>

\* The task running the call is cancelled from outside: CancelledError is
\* raised at the await it is suspended at.  No except clause of the source
\* names it; the finally clause runs when the await is inside the try block.
\* A job the executor is running goes on running.
Cancel(t) ==
    /\ pc[t] \in {"send_data", "enter_learning", "sleep", "check_data"}
    /\ orphans' = IF InFlight(req[t]) THEN orphans + 1 ELSE orphans
    /\ req' = [req EXCEPT ![t].stage =
                    IF InFlight(req[t]) THEN "cancelled" ELSE @]
    /\ IF Polling(t)
       THEN LeaveTry(t, Raised("CancelledError"))
       ELSE /\ Ends(t, Raised("CancelledError"))
            /\ UNCHANGED << notifications, dismissed >>
    /\ UNCHANGED << preset_list, call, elapsed, slept, polls, created >>

\* A job whose awaiter was cancelled answers; nobody reads the answer.
OrphanAnswered ==
    /\ orphans > 0
    /\ orphans' = orphans - 1
    /\ UNCHANGED << preset_list, notifications, pc, call, req, elapsed, slept,
                    polls, created, dismissed, result >>

Next ==
    \/ \E t \in Tasks, b \in Buttons, p \in Presets : send_command(t, b, p)
    \/ \E t \in Tasks : SendDataAnswered(t)
    \/ \E t \in Tasks, b \in Buttons, p \in Presets : learn_command(t, b, p)
    \/ \E t \in Tasks : EnterLearningAnswered(t)
    \/ \E t \in Tasks : Poll(t)
    \/ \E t \in Tasks : CheckDataAnswered(t)
    \/ \E t \in Tasks : Cancel(t)
    \/ Tick
    \/ OrphanAnswered

Spec == Init /\ [][Next]_vars

(***************************************************************************)
(* Two calls on one remote, overlapping.  Nothing in the source serializes *)
(* them.  The behaviours are followed inside a window: few polls, a short  *)
(* stretch of time, three kinds of failure (one of each class the except   *)
(* clauses tell apart).                                                    *)
(***************************************************************************)
ParFailures == {"AuthorizationError", "ReadError", "OSError"}

ParWindow ==
    \A t \in Tasks :
        /\ polls[t] <= MaxParPolls
        /\ elapsed[t] <= MaxParClock
        /\ \A i \in 1..Len(req[t].log) :
                req[t].log[i].out.kind = "err" =>
                    req[t].log[i].out.err \in ParFailures

\* Both tasks call; the remote holds both presets.
InitPar ==
    /\ InitWith(Tasks)
    /\ DOMAIN preset_list = Presets

NextPar ==
    \/ \E t \in Tasks, b \in Buttons, p \in Presets :
            send_command(t, b, p) /\ ParWindow'
    \/ \E t \in Tasks : SendDataAnswered(t) /\ ParWindow'
    \/ \E t \in Tasks, b \in Buttons, p \in Presets :
            learn_command(t, b, p) /\ ParWindow'
    \/ \E t \in Tasks : EnterLearningAnswered(t) /\ ParWindow'
    \/ \E t \in Tasks : Poll(t) /\ ParWindow'
    \/ \E t \in Tasks : CheckDataAnswered(t) /\ ParWindow'
    \/ \E t \in Tasks : Cancel(t) /\ ParWindow'
    \/ Tick /\ ParWindow'
    \/ OrphanAnswered /\ ParWindow'

SpecPar == InitPar /\ [][NextPar]_vars

(***************************************************************************)
(* Properties of the request dispatcher.                                   *)
(***************************************************************************)
\* The request has returned or raised to the coroutine that made it.
Finished(r) == r.stage \in {"returned", "raised"}

\* The first invocation failed with an authorization or connection-closed
\* failure and device.auth has answered `kind`.
AuthAnswered(r, kind) ==
    /\ Len(r.log) >= 2
    /\ IsAuthFailure(r.log[1].out)
    /\ r.log[2].fn = "auth"
    /\ r.log[2].out.kind = kind

\* C1: when the first invocation fails with an authorization or
\* connection-closed failure and device.auth then succeeds, the operation
\* is invoked exactly once more, with the same function and arguments, and
\* what that second invocation answers (a value or a failure) is what
\* async_request answers.
C1_RetryOnceAfterReauth ==
    \A t \in Tasks :
        LET r == req[t]
        IN  AuthAnswered(r, "ok") =>
                /\ Len(r.log) = 3
                /\ r.log[1].fn = r.fn /\ r.log[1].args = r.args
                /\ r.log[3].fn = r.fn /\ r.log[3].args = r.args
                /\ r.stage \in {"retry", "returned", "raised", "cancelled"}
                /\ Finished(r) => r.out = r.log[3].out
                /\ Finished(r) <=> r.log[3].out.kind # "pending"

\* A request that was retried after a successful re-authentication and has
\* answered, once with a value and once with a failure.
C1_Witness ==
    \E t \in Tasks :
        /\ AuthAnswered(req[t], "ok")
        /\ req[t].stage = "raised"
        /\ req[t].fn = "send_data"
        /\ req[t].out = Err("NetworkTimeoutError")

\* C2: when the first invocation fails with an authorization or
\* connection-closed failure and device.auth raises a device-library or OS
\* error, async_request raises the first invocation's failure and the
\* operation is not invoked again.
C2_ReauthFailedPropagatesOriginal ==
    \A t \in Tasks :
        LET r == req[t]
        IN  (AuthAnswered(r, "err") /\ r.log[2].out.err \in DeviceFailures) =>
                /\ Len(r.log) = 2
                /\ r.stage = "raised"
                /\ r.out = r.log[1].out

\* A request whose re-authentication failed with an OS error after a
\* connection-closed failure.
C2_Witness ==
    \E t \in Tasks :
        /\ AuthAnswered(req[t], "err")
        /\ req[t].log[1].out = Err("ConnectionClosedError")
        /\ req[t].log[2].out = Err("OSError")
        /\ req[t].stage = "raised"

\* C10: when the first invocation fails with a failure that is neither an
\* authorization nor a connection-closed failure, async_request raises it
\* at once: no second invocation, no device.auth call.
C10_OtherFailurePropagatesAtOnce ==
    \A t \in Tasks :
        LET r == req[t]
        IN  (/\ Len(r.log) >= 1
             /\ r.log[1].out.kind = "err"
             /\ r.log[1].out.err \notin AuthFailures) =>
                /\ Len(r.log) = 1
                /\ r.stage = "raised"
                /\ r.out = r.log[1].out

\* A request whose first invocation failed with a device-library failure of
\* another class.
C10_Witness ==
    \E t \in Tasks :
        /\ Len(req[t].log) = 1
        /\ req[t].log[1].out = Err("NetworkTimeoutError")
        /\ req[t].stage = "raised"

(***************************************************************************)
(* Properties of send_command.                                             *)
(***************************************************************************)
Sending(t) == call[t].op = "send_command"

\* The code stored for the call's preset and button, None when the preset
\* or the button is not there.
StoredCode(t) ==
    IF call[t].preset \in DOMAIN preset_list
    THEN Get(preset_list[call[t].preset], call[t].button_name)
    ELSE None

\* C7: for every preset and button with no stored code, send_command does
\* not raise and makes no request: no send_data and no auth job is
\* submitted.
C7_NoCodeNoDispatchNoRaise ==
    \A t \in Tasks :
        (Sending(t) /\ StoredCode(t) = None) =>
            /\ pc[t] = "done"
            /\ result[t] = Returned(None)
            /\ req[t] = NoRequest

\* C8: for every stored code, when the device accepts the first send_data
\* job, send_command has submitted exactly one job, send_data with the
\* bytes whose text-safe encoding is the stored code, has made no auth call
\* and has returned.
C8_SendsDecodedCodeOnce ==
    \A t \in Tasks :
        LET r == req[t]
        IN  (Sending(t) /\ Len(r.log) >= 1 /\ r.log[1].out.kind = "ok") =>
                /\ Len(r.log) = 1
                /\ r.log[1].fn = "send_data"
                /\ Len(r.log[1].args) = 1
                /\ b64encode(r.log[1].args[1]) = StoredCode(t)
                /\ pc[t] = "done"
                /\ result[t] = Returned(None)

\* A send of the four-byte code stored for tv/mute that the device accepted.
C8_Witness ==
    \E t \in Tasks :
        /\ Sending(t)
        /\ pc[t] = "done"
        /\ req[t].stage = "returned"
        /\ req[t].log[1].args = << <<38, 0, 255, 13>> >>

\* C9: whatever device or network failure (BroadlinkException, OSError)
\* the send request ends with -- from the first attempt, from the retry
\* after a successful re-authentication, or the authorization failure left
\* by a failed re-authentication -- send_command returns normally.
C9_SendSwallowsDeviceFailures ==
    \A t \in Tasks :
        (/\ Sending(t)
         /\ req[t].stage = "raised"
         /\ req[t].out.err \in DeviceFailures) =>
            /\ pc[t] = "done"
            /\ result[t] = Returned(None)

\* A send whose retry after a successful re-authentication failed with an
\* OS error, swallowed.
C9_Witness ==
    \E t \in Tasks :
        /\ Sending(t)
        /\ AuthAnswered(req[t], "ok")
        /\ req[t].stage = "raised"
        /\ req[t].out = Err("OSError")
        /\ result[t] = Returned(None)

(***************************************************************************)
(* Properties of learn_command.                                            *)
(***************************************************************************)
Learning(t) == call[t].op = "learn_command"

\* The call's last request was a check_data poll that returned bytes.
PollReturnedData(t) ==
    /\ Learning(t)
    /\ req[t].fn = "check_data"
    /\ req[t].stage = "returned"

\* The call's last request was a check_data poll that reported no data.
PollReportedNoData(t) ==
    /\ Learning(t)
    /\ req[t].fn = "check_data"
    /\ req[t].stage = "raised"
    /\ IsNoData(req[t].out)

\* C3: when check_data, after any number of no-data polls, returns bytes
\* while the loop is running, learn_command returns the text-safe encoding
\* of those bytes and preset_list[preset][button_name] holds that encoding
\* when the call returns.
C3_CapturedCodeReturnedAndStored ==
    \A t \in Tasks :
        PollReturnedData(t) =>
            /\ pc[t] = "done"
            /\ result[t] = Returned(b64encode(req[t].out.val))
            /\ StoredCode(t) = b64encode(req[t].out.val)

\* C4 as claimed: when no poll returns data before LEARNING_TIMEOUT units
\* have elapsed since polling began (the polls report no data, nothing else
\* fails, nobody cancels), the call raises TimeoutError and has dismissed
\* the notification exactly once.
C4_NoDataBeforeDeadlineTimesOut ==
    \A t \in Tasks :
        (/\ Learning(t) /\ pc[t] = "done" /\ created[t] = 1
         /\ result[t].err # "CancelledError"
         /\ ~(req[t].stage = "raised" /\ ~IsNoData(req[t].out))
         /\ ~(PollReturnedData(t) /\ elapsed[t] < LEARNING_TIMEOUT)) =>
            /\ result[t] = Raised("TimeoutError")
            /\ dismissed[t] = 1

\* C4 as amended: when no poll returns data at all -- every poll reports no
\* data -- and the call is not cancelled, the call raises TimeoutError, at
\* a loop check made LEARNING_TIMEOUT units or more after polling began,
\* and has dismissed the notification exactly once.
C4_NoDataEverTimesOut ==
    \A t \in Tasks :
        (/\ pc[t] = "done" /\ created[t] = 1
         /\ result[t].err # "CancelledError"
         /\ PollReportedNoData(t)) =>
            /\ result[t] = Raised("TimeoutError")
            /\ dismissed[t] = 1
            /\ elapsed[t] >= LEARNING_TIMEOUT

\* A call that timed out after polling in every unit of the window.
C4_Witness ==
    \E t \in Tasks :
        /\ pc[t] = "done"
        /\ PollReportedNoData(t)
        /\ result[t] = Raised("TimeoutError")
        /\ polls[t] = LEARNING_TIMEOUT
        /\ dismissed[t] = 1

\* C5: once learn_command has created the notification, every way of
\* leaving the call -- capture, timeout, a failure of a poll, cancellation
\* while sleeping or polling -- dismisses it exactly once, in the step that
\* ends the call and not before.
C5_DismissedOnceOnEveryExit ==
    \A t \in Tasks :
        /\ created[t] <= 1
        /\ (pc[t] = "done" /\ created[t] = 1) => dismissed[t] = 1
        /\ (pc[t] # "done" \/ created[t] = 0) => dismissed[t] = 0

\* A call cancelled while it waited for a poll, its notification dismissed.
C5_Witness ==
    \E t \in Tasks :
        /\ Learning(t)
        /\ pc[t] = "done"
        /\ req[t].fn = "check_data"
        /\ req[t].stage = "cancelled"
        /\ result[t] = Raised("CancelledError")
        /\ created[t] = 1
        /\ dismissed[t] = 1

\* C6: any failure of the enter_learning request, also one of the retry
\* after a re-authentication, is raised to the caller with no notification
\* created, no dismissal made and no check_data poll issued.
C6_EnterLearningFailurePropagates ==
    \A t \in Tasks :
        (Learning(t) /\ req[t].fn = "enter_learning" /\ req[t].stage = "raised") =>
            /\ pc[t] = "done"
            /\ result[t] = Raised(req[t].out.err)
            /\ created[t] = 0
            /\ dismissed[t] = 0
            /\ polls[t] = 0
            /\ "learn_command" \notin notifications

\* An enter_learning that failed again after re-authentication and retry.
C6_Witness ==
    \E t \in Tasks :
        /\ Learning(t)
        /\ AuthAnswered(req[t], "ok")
        /\ req[t].fn = "enter_learning"
        /\ req[t].stage = "raised"
        /\ result[t] = Raised("NetworkTimeoutError")

\* The check_data request of task t returns or raises in this step.
PollEnds(t) == pc[t] = "check_data" /\ Finished(req'[t])

\* C11: a poll that ends with a no-data failure (ReadError, StorageError)
\* does not end the call: the loop goes to its next deadline check, which
\* starts another round or, at LEARNING_TIMEOUT units or more, raises
\* TimeoutError.  A poll that ends with any other failure ends the call in
\* that step with that failure.  Neither writes to the preset collection.
C11_NoDataContinuesOtherFailureEnds ==
    [][\A t \in Tasks :
        (PollEnds(t) /\ req'[t].stage = "raised") =>
            /\ preset_list' = preset_list
            /\ IF req'[t].out.err \in NoDataFailures
               THEN IF elapsed[t] < LEARNING_TIMEOUT
                    THEN /\ pc'[t] = "sleep"
                         /\ result'[t] = Running
                         /\ dismissed'[t] = 0
                    ELSE /\ pc'[t] = "done"
                         /\ result'[t] = Raised("TimeoutError")
               ELSE /\ pc'[t] = "done"
                    /\ result'[t] = Raised(req'[t].out.err)]_vars

\* A call whose first poll reported no data and whose second poll ended it
\* with the authorization failure left by a failed re-authentication.
C11_Witness ==
    \E t \in Tasks :
        /\ Learning(t)
        /\ polls[t] = 2
        /\ pc[t] = "done"
        /\ req[t].fn = "check_data"
        /\ AuthAnswered(req[t], "err")
        /\ result[t] = Raised("AuthorizationError")

\* C12 as claimed: once more than LEARNING_TIMEOUT units have elapsed since
\* polling began, the call returns no code (it fails, with a timeout error
\* when nothing else has failed).
C12_NoCodeAfterDeadline ==
    \A t \in Tasks :
        (Learning(t) /\ pc[t] = "done" /\ elapsed[t] > LEARNING_TIMEOUT) =>
            result[t].kind # "returned"

\* A polling round of task t begins in this step: the loop head starts
\* asyncio.sleep(1).
RoundBegins(t) ==
    /\ pc'[t] = "sleep"
    /\ pc[t] # "sleep"

\* C12 as amended: the deadline is looked at when a round would begin.  No
\* round begins LEARNING_TIMEOUT units or more after polling began: the
\* loop head reached then ends the call with TimeoutError, returning no
\* code and writing no slot.  (A round begun earlier runs to its end, so
\* its poll may still return and store a code after the deadline.)
C12_NoRoundBeginsAfterDeadline ==
    [][\A t \in Tasks :
        /\ RoundBegins(t) => elapsed'[t] < LEARNING_TIMEOUT
        /\ (/\ PollEnds(t)
            /\ req'[t].stage = "raised"
            /\ req'[t].out.err \in NoDataFailures
            /\ elapsed[t] >= LEARNING_TIMEOUT) =>
                /\ pc'[t] = "done"
                /\ result'[t] = Raised("TimeoutError")
                /\ preset_list' = preset_list]_vars

\* A call that timed out at a loop head reached more than LEARNING_TIMEOUT
\* units after polling began.
C12_Witness ==
    \E t \in Tasks :
        /\ Learning(t)
        /\ pc[t] = "done"
        /\ result[t] = Raised("TimeoutError")
        /\ elapsed[t] > LEARNING_TIMEOUT

\* The jobs of request r that ran device operation fn.
JobsOf(r, fn) == {i \in 1..Len(r.log) : r.log[i].fn = fn}

\* C13: whatever the device answers, one async_request invokes its
\* operation at most twice and device.auth at most once; when the retried
\* invocation fails again with an authorization or connection-closed
\* failure, the request raises that failure: no second auth, no third
\* invocation.
C13_AtMostTwoInvocationsOneAuth ==
    \A t \in Tasks :
        LET r == req[t]
        IN  /\ Cardinality(JobsOf(r, "auth")) <= 1
            /\ r.fn # "auth" => Cardinality(JobsOf(r, r.fn)) <= 2
            /\ Len(r.log) <= 3
            /\ (Len(r.log) = 3 /\ IsAuthFailure(r.log[3].out)) =>
                    /\ r.stage = "raised"
                    /\ r.out = r.log[3].out

\* A request whose retry failed with an authorization failure again.
C13_Witness ==
    \E t \in Tasks :
        /\ Len(req[t].log) = 3
        /\ req[t].log[1].out = Err("ConnectionClosedError")
        /\ req[t].log[3].out = Err("AuthorizationError")
        /\ req[t].stage = "raised"

\* C14: the events of a learn_command run come in this order.  The
\* notification is created once, in the step in which the enter_learning
\* request returns, and that step begins the first round.  A round begins
\* with a sleep, entered only from there or from an ended poll; the sleep
\* lasts a unit of time before its poll is issued; a poll is issued only
\* out of a finished sleep, after the creation and before the dismissal.
\* The dismissal is made once, in the step that ends the call, and a call
\* that has ended issues, creates and dismisses nothing more.
C14_LearnEventOrder ==
    [][\A t \in Tasks :
        /\ created'[t] # created[t] =>
                /\ created[t] = 0 /\ polls[t] = 0 /\ dismissed'[t] = 0
                /\ pc[t] = "enter_learning"
                /\ req'[t].fn = "enter_learning" /\ req'[t].stage = "returned"
                /\ RoundBegins(t)
        /\ RoundBegins(t) =>
                /\ pc[t] \in {"enter_learning", "check_data"}
                /\ ~slept'[t]
                /\ created'[t] = 1 /\ dismissed'[t] = 0
        /\ (~slept[t] /\ slept'[t]) =>
                /\ pc[t] = "sleep" /\ pc'[t] = "sleep"
                /\ elapsed'[t] = elapsed[t] + 1 \/ elapsed[t] = ClockCap
        /\ polls'[t] # polls[t] =>
                /\ polls'[t] = polls[t] + 1
                /\ pc[t] = "sleep" /\ slept[t]
                /\ created[t] = 1 /\ dismissed[t] = 0
                /\ req'[t].fn = "check_data"
        /\ dismissed'[t] # dismissed[t] =>
                /\ dismissed[t] = 0 /\ dismissed'[t] = 1
                /\ created[t] = 1
                /\ pc[t] # "done" /\ pc'[t] = "done"
        /\ pc[t] = "done" =>
                /\ pc'[t] = "done"
                /\ polls'[t] = polls[t]
                /\ created'[t] = created[t]
                /\ dismissed'[t] = dismissed[t]
                /\ req'[t] = req[t]]_vars

\* A run of two full rounds that captured a code on the second poll.
C14_Witness ==
    \E t \in Tasks :
        /\ Learning(t)
        /\ pc[t] = "done"
        /\ polls[t] = 2
        /\ result[t].kind = "returned"
        /\ created[t] = 1
        /\ dismissed[t] = 1

(***************************************************************************)
(* Properties of overlapping calls (checked under SpecPar).                *)
(***************************************************************************)
\* The jobs of task t's request that the executor has not answered and
\* that the task still awaits.
AwaitedJobs(t) ==
    IF req[t].stage = "cancelled" THEN {}
    ELSE {i \in 1..Len(req[t].log) : req[t].log[i].out.kind = "pending"}

\* The tasks with a job in flight.
Busy == {t \in Tasks : AwaitedJobs(t) # {}}

\* The calls made so far.
Called == {t \in Tasks : call[t].op # "none"}

\* C15 as claimed: across any interleaving of learn_command and
\* send_command calls on one remote, at most one blocking device operation
\* is in flight on the executor at any time.
C15_AtMostOneInFlight ==
    Cardinality(Busy) + orphans <= 1

\* C15 as amended: inside one call the operations are strictly sequential,
\* the call has at most one blocking device operation in flight, the one
\* it awaits.  Calls are not serialized against each other: there are at
\* most as many operations in flight as calls were made (a cancelled call
\* may leave its job running).
C15_AtMostOneInFlightPerCall ==
    /\ \A t \in Tasks :
        /\ Cardinality(AwaitedJobs(t)) <= 1
        /\ InFlight(req[t]) <=> AwaitedJobs(t) = {Len(req[t].log)}
        /\ InFlight(req[t]) <=> pc[t] \in {"send_data", "enter_learning", "check_data"}
    /\ Cardinality(Busy) + orphans <= Cardinality(Called)

\* A send_data job and an auth job of two overlapping calls, both in
\* flight.
C15_Witness ==
    \E t, u \in Tasks :
        /\ t # u
        /\ pc[t] = "send_data" /\ req[t].stage = "first"
        /\ pc[u] = "check_data" /\ req[u].stage = "auth"

Displayed == "learn_command" \in notifications

\* C17 as claimed: whenever a learn_command call is in its polling phase
\* the notification is displayed, also when two learn_command calls
\* overlap and one of them finishes (none is cancelled).
C17_DisplayedWhilePolling ==
    (\A u \in Tasks : result[u].err # "CancelledError") =>
        \A t \in Tasks : (Learning(t) /\ Polling(t)) => Displayed

\* C17 as amended: the notification is displayed when a call enters its
\* polling phase and stays displayed while the call polls until a call
\* makes its dismissal; for a call that no other learn_command overlaps
\* that is its own dismissal, at the end of its polling phase.  The
\* notification id is shared: the dismissal of an overlapping call removes
\* the prompt of the call that is still polling.
C17_DisplayedUntilADismissal ==
    [][\A t \in Tasks :
        /\ (~Polling(t) /\ Polling(t)') => Displayed'
        /\ (Polling(t) /\ Polling(t)' /\ Displayed /\ ~Displayed') =>
                \E u \in Tasks \ {t} :
                    /\ dismissed'[u] = dismissed[u] + 1
                    /\ pc'[u] = "done"
        /\ (Polling(t) /\ Polling(t)' /\ ~Displayed /\ ~Displayed') =>
                \E u \in Tasks \ {t} : dismissed[u] = 1]_vars

\* Two overlapping calls, both polling, the prompt displayed.
C17_Witness ==
    \E t, u \in Tasks :
        /\ t # u
        /\ Polling(t) /\ polls[t] = 1
        /\ Polling(u)
        /\ Displayed

\* The slots of the preset collection: the (preset, button) pairs it holds.
Slots(pl) == {<<p, b>> \in Presets \X Buttons : p \in DOMAIN pl /\ b \in DOMAIN pl[p]}

\* C16: the preset collection is changed only by a successful capture.  A
\* step that changes it is the step in which a learn_command returns its
\* code; send_command makes no such step, nor does a learn_command that
\* ends in a timeout, a propagated failure or a cancellation.  That step
\* keeps the presets, writes the returned code to the requested slot
\* preset_list[preset][button_name] and leaves every other slot as it was.
C16_OnlyCaptureWritesRequestedSlot ==
    [][preset_list' # preset_list =>
        \E t \in Tasks :
            LET slot == <<call[t].preset, call[t].button_name>>
            IN  /\ Learning(t)
                /\ result[t] = Running
                /\ result'[t].kind = "returned"
                /\ DOMAIN preset_list' = DOMAIN preset_list
                /\ Slots(preset_list') = Slots(preset_list) \cup {slot}
                /\ preset_list'[slot[1]][slot[2]] = result'[t].val
                /\ \A s \in Slots(preset_list) \ {slot} :
                        preset_list'[s[1]][s[2]] = preset_list[s[1]][s[2]]]_vars

\* A learn_command has returned its code, the requested slot holds it and
\* the preset's other button still holds the code it had.
C16_Witness ==
    \E t \in Tasks :
        /\ Learning(t)
        /\ result[t].kind = "returned"
        /\ call[t].preset \in DOMAIN preset_list
        /\ Get(preset_list[call[t].preset], call[t].button_name) = result[t].val
        /\ \E b \in DOMAIN preset_list[call[t].preset] :
                /\ b # call[t].button_name
                /\ preset_list[call[t].preset][b] # result[t].val

(***************************************************************************)
(* Termination of learn_command.                                           *)
(***************************************************************************)
\* The scheduling the termination of a call rests on: the clock advances
\* (a sleep lasts at least one unit and ends), the event loop resumes a
\* coroutine whose sleep is over, and every device call the executor runs
\* eventually returns or raises.
Fairness ==
    /\ WF_vars(Tick)
    /\ \A t \in Tasks :
        /\ WF_vars(Poll(t))
        /\ WF_vars(EnterLearningAnswered(t))
        /\ WF_vars(CheckDataAnswered(t))
        /\ WF_vars(SendDataAnswered(t))

\* A remote constructed with one preset holding one learned code: a call
\* can name a preset the collection holds or one it lacks, a button with a
\* code or one without.
InitFair ==
    /\ Init
    /\ preset_list = Put(EmptyDict, "tv", Put(EmptyDict, "power", b64encode(<<178>>)))

FairSpec == InitFair /\ [][Next]_vars /\ Fairness

\* C18: learn_command always terminates when every device call eventually
\* returns or raises and each sleep advances the clock by at least one
\* unit: a call that was made eventually returns a code or raises, and it
\* never issues more than LEARNING_TIMEOUT (30) check_data polling rounds,
\* also when the device reports no data on every poll.
C18_LearnTerminatesWithinThirtyRounds ==
    /\ [](\A t \in Tasks : Learning(t) => polls[t] <= LEARNING_TIMEOUT)
    /\ \A t \in Tasks :
            Learning(t) ~> (pc[t] = "done" /\ result[t].kind \in {"returned", "raised"})

\* A learn_command has ended with TimeoutError after thirty polling rounds.
C18_Witness ==
    \E t \in Tasks :
        /\ Learning(t)
        /\ pc[t] = "done"
        /\ result[t] = Raised("TimeoutError")
        /\ polls[t] = LEARNING_TIMEOUT

====
